---- MODULE Spec2Model ----
(***************************************************************************)
(* The AudioPlayer component of src/components/AudioPlayer.tsx as a state  *)
(* machine.  One unit of time is one sample frame of the 24 kHz context,   *)
(* so a buffer of n frames has duration n.  React state holds the values   *)
(* of the last committed render; a callback created by a render (the       *)
(* updateProgress of useCallback, the togglePlay of a click) reads the     *)
(* state values of the render that created it, and reads refs when it      *)
(* runs.  Every action is one handler together with the render it causes   *)
(* and the effects of that render.                                         *)
(***************************************************************************)
EXTENDS Integers, Sequences, FiniteSets, TLC

\* ------------------------------------------------------------------ bounds
\* the audio clock of one context is followed up to this many frames
MaxClock == 3
\* audio contexts the component may create (payloads it is given)
MaxCtx == 2
\* identities of the onEnded prop the parent passes over the run
MaxOnEnded == 3
\* togglePlay calls that may wait on ctx.resume() at once
MaxPending == 2
\* onEnded invocations counted per play (the count saturates here)
MaxEnded == 2
\* handleStart calls of the App over the run
MaxAttempts == 3

\* ------------------------------------------------------------------ inputs
NoPayload == "null"
Payloads == {"A", "B", "X"}

\* byte length of the base64-decoded payload
ByteLength(p) == CASE p = "A" -> 2 [] p = "B" -> 6 [] OTHER -> 3

\* decodeAudioData(base64, ctx) of ../utils/audioUtils: 16-bit mono PCM, two
\* bytes a frame; an odd or empty byte sequence is a decode failure
DecodeOk(p) == ByteLength(p) > 0 /\ ByteLength(p) % 2 = 0
FrameCount(p) == ByteLength(p) \div 2
\* buffer.duration, in frames
BufferDuration(p) == FrameCount(p)

\* ------------------------------------------------------------------ numbers
Abs(n) == IF n < 0 THEN -n ELSE n

RECURSIVE GCD(_, _)
GCD(a, b) == IF b = 0 THEN a ELSE GCD(b, a % b)

\* the exact quotient n / d, in lowest terms; d > 0
Ratio(n, d) ==
  LET g == GCD(Abs(n), d)
  IN  IF g = 0 THEN [num |-> 0, den |-> 1] ELSE [num |-> n \div g, den |-> d \div g]

\* (elapsed / duration) * 100 of line 85; a division by 0 of a negative
\* elapsed is -Infinity, which no reachable state computes
Percent(elapsed, dur) ==
  IF dur = 0 THEN [num |-> -1, den |-> 0] ELSE Ratio(elapsed * 100, dur)

Zero == [num |-> 0, den |-> 1]
Hundred == [num |-> 100, den |-> 1]

VARIABLES
  base64Audio,        \* prop: the payload, or NoPayload
  onEnded,            \* prop: identity of the completion callback
  isPlaying, progress, duration, currentTime, isReady,   \* useState, lines 12-16
  audioContextRef,    \* 0 (null) or the context; contexts are numbered as created
  ctxState,           \* state of the context audioContextRef holds
  ctxTime,            \* ctx.currentTime of that context
  gainNodeRef,        \* 0 or the context whose gain node it holds
  sourceNodeRef,      \* 0 or a source node
  audioBufferRef,     \* NoPayload (null) or the payload the buffer was decoded from
  startTimeRef, pauseTimeRef,
  animationFrameRef,  \* 0 or a requestAnimationFrame id
  nodes,              \* source nodes started and not stopped
  rafQueue,           \* pending animation-frame callbacks, in request order
  pendingToggle,      \* togglePlay calls suspended at await ctx.resume()
  pendingDecode,      \* initAudio calls suspended at await decodeAudioData()
  op,                 \* history: the handler that ran last, and its branch
  endedCalls,         \* history: onEnded invocations since the last play
  playedTime,         \* history: clock time spent with isPlaying since the last rewind
  ended,              \* history: a poll found the transport Playing at the end of the
                      \* buffer in use, and no play, restart or other payload followed
  segment,            \* history: "mount" until the first pause, end or payload change of
                      \* the component, "restart" from a handleRestart until the next
                      \* pause, end or payload change, "none" otherwise
  polled,             \* history: a poll has reported currentTime since isPlaying
                      \* last became true
  mounted,            \* the component is in the tree
  \* the App of src/unnamed/part_000, useState of lines 32-44
  appState,           \* AppState
  content,            \* 0 (null) or the handleStart call that generated the content held
  audioBase64,        \* 0 (null) or the handleStart call whose script the audio held
                      \* was generated from
  userAnswers,        \* the option chosen for the question, or "none"
  notes, showScript, score,
  attempts            \* where each handleStart call stands

reactState == <<isPlaying, progress, duration, currentTime, isReady>>
props == <<base64Audio, onEnded>>
ctxVars == <<audioContextRef, ctxState, ctxTime, gainNodeRef>>
refs == <<sourceNodeRef, audioBufferRef, startTimeRef, pauseTimeRef, animationFrameRef>>
pending == <<nodes, rafQueue, pendingToggle, pendingDecode>>
history == <<op, endedCalls, playedTime, ended, segment, polled>>
appVars == <<appState, content, audioBase64, userAnswers, notes, showScript, score, attempts>>
vars == <<props, reactState, ctxVars, refs, pending, history, mounted, appVars>>

\* ------------------------------------------------------------------ browser
\* an id no pending request and no holder of an id uses: the browser's id is new
FreshId(used) == CHOOSE i \in 1..(Cardinality(used) + 1) : i \notin used

QueueIds(q) == {q[i].id : i \in DOMAIN q}

cancelAnimationFrame(q, id) == SelectSeq(q, LAMBDA e : e.id # id)

\* The program only compares a request id with animationFrameRef, so between
\* handlers the pending requests are renumbered by their place in the queue,
\* and an animationFrameRef whose request has run or was cancelled reads 0:
\* cancelAnimationFrame does nothing for either.
Renumbered(q) == [i \in DOMAIN q |-> [q[i] EXCEPT !.id = i]]
RenumberedRef(q, ref) ==
  IF \E i \in DOMAIN q : q[i].id = ref THEN CHOOSE i \in DOMAIN q : q[i].id = ref ELSE 0

\* The part of the component a handler writes, as a record.
Transport ==
  [isPlaying |-> isPlaying, progress |-> progress, currentTime |-> currentTime,
   sourceNodeRef |-> sourceNodeRef, startTimeRef |-> startTimeRef,
   pauseTimeRef |-> pauseTimeRef, animationFrameRef |-> animationFrameRef,
   nodes |-> nodes, rafQueue |-> rafQueue,
   endedCalls |-> endedCalls, playedTime |-> playedTime, ended |-> ended,
   segment |-> segment, polled |-> polled]

Install(t) ==
  /\ isPlaying' = t.isPlaying
  /\ progress' = t.progress
  /\ currentTime' = t.currentTime
  /\ sourceNodeRef' = t.sourceNodeRef
  /\ startTimeRef' = t.startTimeRef
  /\ pauseTimeRef' = t.pauseTimeRef
  /\ animationFrameRef' = RenumberedRef(t.rafQueue, t.animationFrameRef)
  /\ nodes' = t.nodes
  /\ rafQueue' = Renumbered(t.rafQueue)
  /\ endedCalls' = t.endedCalls
  /\ playedTime' = t.playedTime
  /\ ended' = t.ended
  /\ segment' = t.segment
  /\ polled' = t.polled

\* ------------------------------------------------------------------ component
\* lines 58-68
stopAudio(t) ==
  IF t.sourceNodeRef # 0
  THEN [t EXCEPT !.nodes = {n \in @ : n.id # t.sourceNodeRef}, !.sourceNodeRef = 0]
  ELSE t

\* an effect that requests no frame
PollEffectNoRequest(t, dur) ==
  IF t.isPlaying THEN t
  ELSE [t EXCEPT !.rafQueue = cancelAnimationFrame(@, t.animationFrameRef)]

\* lines 90-96, run by a render whose isPlaying or updateProgress differs from
\* the render before.  The updateProgress it requests closes over the isPlaying
\* (true), the duration and the onEnded of that render (line 88); the onEnded it
\* would call is only counted when called, so the request records the duration.
PollEffect(t, dur) ==
  IF t.isPlaying
  THEN LET id == FreshId(QueueIds(t.rafQueue) \cup {t.animationFrameRef})
       IN  [t EXCEPT !.rafQueue = Append(@, [id |-> id, duration |-> dur]),
                     !.animationFrameRef = id]
  ELSE [t EXCEPT !.rafQueue = cancelAnimationFrame(@, t.animationFrameRef)]

\* the render after a handler that wrote isPlaying and neither duration nor onEnded;
\* a component that is unmounted keeps its state and renders no more
Commit(was, t) == IF mounted /\ t.isPlaying # was THEN PollEffect(t, duration) ELSE t

\* what a callback that ran on state t0 leaves: its setState calls are dropped
\* once the component is unmounted, its writes to refs are not
Detached(t0, t) ==
  IF mounted THEN t
  ELSE [t EXCEPT !.isPlaying = t0.isPlaying, !.progress = t0.progress,
                 !.currentTime = t0.currentTime]

\* lines 106-128: togglePlay from its test of isPlaying on; cl holds the state
\* values of the render that created this togglePlay and its context.  A
\* context that is closed still creates and starts nodes, and its clock stands.
TogglePlayBody(cl, t) ==
  IF cl.isPlaying
  THEN Commit(t.isPlaying,
         [stopAudio(t) EXCEPT !.pauseTimeRef = @ + (ctxTime - t.startTimeRef),
                              !.isPlaying = FALSE,
                              !.segment = "none", !.polled = FALSE])
  ELSE LET rewind == cl.currentTime >= cl.duration
           t1 == IF rewind
                 THEN [t EXCEPT !.pauseTimeRef = 0, !.currentTime = 0, !.progress = Zero,
                                !.playedTime = 0]
                 ELSE t
           t2 == [t1 EXCEPT !.startTimeRef = ctxTime]
           id == FreshId({n.id : n \in t.nodes} \cup {t.sourceNodeRef})
       IN  IF t2.pauseTimeRef < 0
           THEN t2   \* source.start throws a RangeError on a negative offset
           ELSE Commit(t.isPlaying,
                  [t2 EXCEPT !.nodes = @ \cup {[id |-> id, ctx |-> cl.ctx,
                                                 offset |-> t2.pauseTimeRef]},
                             !.sourceNodeRef = id,
                             !.isPlaying = TRUE,
                             !.endedCalls = 0,
                             !.ended = FALSE,
                             !.segment = IF t.isPlaying THEN "none" ELSE @,
                             !.polled = FALSE])

\* a togglePlay that tests the context alone
ContextOnlyGuard == audioContextRef = 0

\* line 99: togglePlay returns at once
NotInitialised == audioContextRef = 0 \/ audioBufferRef = NoPayload

Closure == [isPlaying |-> isPlaying, currentTime |-> currentTime,
            duration |-> duration, ctx |-> audioContextRef]

\* ------------------------------------------------------------------ initial state
\* after the first render with payload p and its effects (lines 27-56, 90-96)
Mounted(p) ==
  /\ base64Audio = p
  /\ onEnded = 1
  /\ isPlaying = FALSE /\ progress = Zero /\ duration = 0 /\ currentTime = 0
  /\ isReady = FALSE
  /\ sourceNodeRef = 0 /\ audioBufferRef = NoPayload
  /\ startTimeRef = 0 /\ pauseTimeRef = 0 /\ animationFrameRef = 0
  /\ nodes = {} /\ rafQueue = <<>> /\ pendingToggle = <<>>
  /\ op = "mount" /\ endedCalls = 0 /\ playedTime = 0 /\ ended = FALSE
  /\ segment = "mount" /\ polled = FALSE /\ mounted = TRUE
  /\ ctxTime = 0
  /\ IF p = NoPayload
     THEN audioContextRef = 0 /\ gainNodeRef = 0 /\ ctxState = "none"
          /\ pendingDecode = {}
     ELSE audioContextRef = 1 /\ gainNodeRef = 1
          /\ ctxState \in {"suspended", "running"}
          /\ pendingDecode = {[payload |-> p, ctx |-> 1]}

\* the App after its first render, part_000 lines 32-44
AppMounted ==
  /\ appState = "SETUP"
  /\ content = 0 /\ audioBase64 = 0
  /\ userAnswers = "none" /\ notes = "" /\ showScript = FALSE /\ score = 0
  /\ attempts = [a \in 1..MaxAttempts |-> "none"]

Init == (\E p \in Payloads \cup {NoPayload} : Mounted(p)) /\ AppMounted

\* ------------------------------------------------------------------ actions
\* The parent passes another payload: the cleanup of lines 48-55, then initAudio.
\* close() rejects the resume promises that are pending on the context.
SetPayload(p) ==
  /\ mounted
  /\ p # base64Audio
  /\ p # NoPayload => audioContextRef < MaxCtx
  /\ base64Audio' = p
  /\ rafQueue' = Renumbered(IF animationFrameRef # 0
                            THEN cancelAnimationFrame(rafQueue, animationFrameRef)
                            ELSE rafQueue)
  /\ animationFrameRef' = 0
  /\ pendingToggle' = <<>>
  /\ IF p = NoPayload
     THEN /\ ctxState' = IF audioContextRef # 0 THEN "closed" ELSE ctxState
          /\ UNCHANGED <<audioContextRef, ctxTime, gainNodeRef, pendingDecode>>
     ELSE /\ audioContextRef' = audioContextRef + 1
          /\ gainNodeRef' = audioContextRef + 1
          /\ ctxState' \in {"suspended", "running"}
          /\ ctxTime' = 0
          /\ pendingDecode' = pendingDecode \cup {[payload |-> p, ctx |-> audioContextRef + 1]}
  /\ op' = "setPayload"
  /\ ended' = FALSE
  /\ segment' = "none"
  /\ UNCHANGED <<onEnded, reactState, sourceNodeRef, audioBufferRef, startTimeRef,
                 pauseTimeRef, nodes, endedCalls, playedTime, polled, mounted>>
  /\ UNCHANGED appVars

\* the parent stops rendering the component: the cleanup of lines 48-55
Unmount ==
  /\ mounted
  /\ mounted' = FALSE
  /\ rafQueue' = Renumbered(IF animationFrameRef # 0
                            THEN cancelAnimationFrame(rafQueue, animationFrameRef)
                            ELSE rafQueue)
  /\ animationFrameRef' = 0
  /\ pendingToggle' = <<>>
  /\ ctxState' = IF audioContextRef # 0 THEN "closed" ELSE ctxState
  /\ op' = "unmount"
  /\ UNCHANGED <<props, reactState, audioContextRef, ctxTime, gainNodeRef, sourceNodeRef,
                 audioBufferRef, startTimeRef, pauseTimeRef, nodes, pendingDecode,
                 endedCalls, playedTime, ended, segment, polled>>
  /\ UNCHANGED appVars

Decodes == [payload : Payloads, ctx : 1..MaxCtx]

\* an initAudio that leaves out the setDuration of line 39
DecodeDoneKeepsDuration(d) ==
  /\ d \in pendingDecode
  /\ pendingDecode' = pendingDecode \ {d}
  /\ IF DecodeOk(d.payload)
     THEN /\ audioBufferRef' = d.payload
          /\ duration' = duration
          /\ isReady' = (isReady \/ mounted)
          /\ Install(IF duration' # duration
                     THEN PollEffect([Transport EXCEPT !.ended = FALSE], duration')
                     ELSE Transport)
          /\ op' = "decoded"
     ELSE /\ op' = "decodeFailed"
          /\ UNCHANGED <<reactState, refs, nodes, rafQueue, endedCalls, playedTime, ended,
                         segment, polled>>
  /\ UNCHANGED <<props, ctxVars, pendingToggle, mounted>>
  /\ UNCHANGED appVars

\* decodeAudioData settles: lines 38-40, or the catch of lines 41-43
DecodeDone(d) ==
  /\ d \in pendingDecode
  /\ pendingDecode' = pendingDecode \ {d}
  /\ IF DecodeOk(d.payload)
     THEN /\ audioBufferRef' = d.payload
          /\ duration' = IF mounted THEN BufferDuration(d.payload) ELSE duration
          /\ isReady' = (isReady \/ mounted)
          /\ Install(IF duration' # duration
                     THEN PollEffect([Transport EXCEPT !.ended = FALSE], duration')
                     ELSE Transport)
          /\ op' = "decoded"
     ELSE /\ op' = "decodeFailed"
          /\ UNCHANGED <<reactState, refs, nodes, rafQueue, endedCalls, playedTime, ended,
                         segment, polled>>
  /\ UNCHANGED <<props, ctxVars, pendingToggle, mounted>>
  /\ UNCHANGED appVars

\* the parent renders again and passes a new function as onEnded
ParentRender ==
  /\ mounted
  /\ onEnded < MaxOnEnded
  /\ onEnded' = onEnded + 1
  /\ Install(PollEffect(Transport, duration))
  /\ op' = "parentRender"
  /\ UNCHANGED <<base64Audio, duration, isReady, ctxVars, audioBufferRef,
                 pendingToggle, pendingDecode, mounted>>
  /\ UNCHANGED appVars

\* a click on the play/pause button: togglePlay, lines 98-129
TogglePlay ==
  /\ mounted
  /\ IF NotInitialised
     THEN /\ op' = "togglePlay:ignored"
          /\ UNCHANGED <<props, reactState, ctxVars, refs, pending, endedCalls, playedTime,
                         ended, segment, polled>>
     ELSE IF ctxState = "suspended"
     THEN /\ Len(pendingToggle) < MaxPending
          /\ pendingToggle' = Append(pendingToggle, Closure)
          /\ op' = "togglePlay:await"
          /\ UNCHANGED <<props, reactState, ctxVars, refs, nodes, rafQueue, pendingDecode,
                         endedCalls, playedTime, ended, segment, polled>>
     ELSE /\ Install(TogglePlayBody(Closure, Transport))
          /\ op' = IF isPlaying THEN "togglePlay:pause" ELSE "togglePlay:play"
          /\ UNCHANGED <<props, duration, isReady, ctxVars, audioBufferRef,
                         pendingToggle, pendingDecode>>
  /\ UNCHANGED mounted
  /\ UNCHANGED appVars

RECURSIVE RunPending(_, _)
RunPending(cls, t) ==
  IF cls = <<>> THEN t ELSE RunPending(Tail(cls), TogglePlayBody(Head(cls), t))

\* the context resumes: every pending resume promise resolves, in order, and the
\* togglePlay calls that awaited them go on from line 106
Resumed ==
  /\ pendingToggle # <<>>
  /\ ctxState' = "running"
  /\ pendingToggle' = <<>>
  /\ Install(RunPending(pendingToggle, Transport))
  /\ op' = "resumed"
  /\ UNCHANGED <<props, duration, isReady, audioContextRef, ctxTime, gainNodeRef,
                 audioBufferRef, pendingDecode, mounted>>
  /\ UNCHANGED appVars

\* a click on the restart button (rendered once isReady): lines 131-137
HandleRestart ==
  /\ mounted
  /\ isReady
  /\ Install(Commit(isPlaying,
       [stopAudio(Transport) EXCEPT !.isPlaying = FALSE, !.pauseTimeRef = 0,
                                    !.currentTime = 0, !.progress = Zero,
                                    !.playedTime = 0, !.ended = FALSE,
                                    !.segment = "restart", !.polled = FALSE]))
  /\ op' = "handleRestart"
  /\ UNCHANGED <<props, duration, isReady, ctxVars, audioBufferRef,
                 pendingToggle, pendingDecode, mounted>>
  /\ UNCHANGED appVars

\* line 74
Elapsed(t) == ctxTime - t.startTimeRef + t.pauseTimeRef

\* lines 70-88, run with the state values cb closed over (its isPlaying is true:
\* only a render with isPlaying requests a frame)
updateProgress(cb, t) ==
  IF audioContextRef = 0 THEN t
  ELSE LET elapsed == Elapsed(t)
       IN  IF elapsed >= cb.duration
           THEN Commit(t.isPlaying,
                  [stopAudio([t EXCEPT !.isPlaying = FALSE, !.progress = Hundred,
                                       !.currentTime = cb.duration, !.pauseTimeRef = 0])
                   EXCEPT !.endedCalls = IF @ < MaxEnded THEN @ + 1 ELSE @,
                          !.playedTime = 0,
                          !.ended = (t.isPlaying /\ cb.duration = duration) \/ @,
                          !.segment = IF t.isPlaying THEN "none" ELSE @,
                          !.polled = FALSE])
           ELSE LET id == FreshId(QueueIds(t.rafQueue) \cup {t.animationFrameRef})
                IN  [t EXCEPT !.currentTime = elapsed,
                              !.progress = Percent(elapsed, cb.duration),
                              !.rafQueue = Append(@, [cb EXCEPT !.id = id]),
                              !.animationFrameRef = id,
                              !.polled = t.isPlaying]

\* the browser runs the oldest pending animation-frame callback
AnimationFrame ==
  /\ rafQueue # <<>>
  /\ LET cb == Head(rafQueue)
         t0 == [Transport EXCEPT !.rafQueue = Tail(rafQueue)]
     IN  /\ Install(Detached(t0, updateProgress(cb, t0)))
         /\ op' = IF Elapsed(t0) >= cb.duration THEN "updateProgress:ended"
                  ELSE "updateProgress:tick"
  /\ UNCHANGED <<props, duration, isReady, ctxVars, audioBufferRef,
                 pendingToggle, pendingDecode, mounted>>
  /\ UNCHANGED appVars

\* the audio clock of a running context advances by one frame
ClockTick ==
  /\ ctxState = "running"
  /\ ctxTime < MaxClock
  /\ ctxTime' = ctxTime + 1
  /\ playedTime' = IF isPlaying THEN playedTime + 1 ELSE playedTime
  /\ op' = "clock"
  /\ UNCHANGED <<props, reactState, audioContextRef, ctxState, gainNodeRef, refs,
                 pending, endedCalls, ended, segment, polled, mounted>>
  /\ UNCHANGED appVars

Next ==
  \/ \E p \in Payloads \cup {NoPayload} : SetPayload(p)
  \/ \E d \in Decodes : DecodeDone(d)
  \/ Unmount
  \/ ParentRender
  \/ TogglePlay
  \/ Resumed
  \/ HandleRestart
  \/ AnimationFrame
  \/ ClockTick

Spec == Init /\ [][Next]_vars

\* the component from its mount on with the payload it was mounted with
SessionNext ==
  \/ \E d \in Decodes : DecodeDone(d)
  \/ Unmount
  \/ ParentRender
  \/ TogglePlay
  \/ Resumed
  \/ HandleRestart
  \/ AnimationFrame
  \/ ClockTick

\* the clock of a running context advances and the browser runs the frames
\* that are pending
FairSpec ==
  Init /\ [][SessionNext]_vars /\ WF_vars(ClockTick) /\ WF_vars(AnimationFrame)

\* ------------------------------------------------------------------ the App
\* src/unnamed/part_000.  The content held has one question with the options of
\* Options, of which CorrectOption is the right one; the type and the topic
\* chosen on the setup screen and the loadingStep text reach no state the
\* handlers below read.
Options == {"A", "B"}
CorrectOption == "A"

\* what the player variables hold while the App is followed on its own
playerButOp == <<props, reactState, ctxVars, refs, pending, endedCalls, playedTime, ended,
                 segment, polled, mounted>>

Started == Cardinality({a \in 1..MaxAttempts : attempts[a] # "none"})

\* a click on Start Practice (rendered in SETUP): handleStart up to its first
\* await, lines 47-53
HandleStart ==
  /\ appState = "SETUP"
  /\ Started < MaxAttempts
  /\ appState' = "GENERATING"
  /\ attempts' = [attempts EXCEPT ![Started + 1] = "content"]
  /\ op' = "handleStart"
  /\ UNCHANGED <<content, audioBase64, userAnswers, notes, showScript, score, playerButOp>>

\* generateTOEFLMaterial resolves for call a: lines 54-57
ContentGenerated(a) ==
  /\ attempts[a] = "content"
  /\ content' = a
  /\ attempts' = [attempts EXCEPT ![a] = "audio"]
  /\ op' = "handleStart:content"
  /\ UNCHANGED <<appState, audioBase64, userAnswers, notes, showScript, score, playerButOp>>

\* generateAudio resolves for call a, with the audio of the script that call
\* generated: lines 58-65
AudioGenerated(a) ==
  /\ attempts[a] = "audio"
  /\ audioBase64' = a
  /\ userAnswers' = "none" /\ notes' = "" /\ showScript' = FALSE /\ score' = 0
  /\ appState' = "LISTENING"
  /\ attempts' = [attempts EXCEPT ![a] = "settled"]
  /\ op' = "handleStart:listening"
  /\ UNCHANGED <<content, playerButOp>>

\* a handleStart whose catch also clears the audio held
GenerationFailedClearsAudio(a) ==
  /\ attempts[a] \in {"content", "audio"}
  /\ appState' = "SETUP"
  /\ audioBase64' = 0
  /\ attempts' = [attempts EXCEPT ![a] = "settled"]
  /\ op' = IF attempts[a] = "content" THEN "handleStart:contentFailed"
           ELSE "handleStart:audioFailed"
  /\ UNCHANGED <<content, userAnswers, notes, showScript, score, playerButOp>>

\* generateTOEFLMaterial or generateAudio rejects for call a (AudioPlayer.tsx
\* lines 267-269, 295-301): the catch of lines 66-70
GenerationFailed(a) ==
  /\ attempts[a] \in {"content", "audio"}
  /\ appState' = "SETUP"
  /\ attempts' = [attempts EXCEPT ![a] = "settled"]
  /\ op' = IF attempts[a] = "content" THEN "handleStart:contentFailed"
           ELSE "handleStart:audioFailed"
  /\ UNCHANGED <<content, audioBase64, userAnswers, notes, showScript, score, playerButOp>>

\* a click on the header, confirmed: lines 404-406
ReturnHome ==
  /\ appState' = "SETUP"
  /\ op' = "returnHome"
  /\ UNCHANGED <<content, audioBase64, userAnswers, notes, showScript, score, attempts,
                 playerButOp>>

\* the notes textarea of the listening screen: line 239
TypeNotes ==
  /\ appState = "LISTENING"
  /\ notes' = IF notes = "" THEN "n" ELSE ""
  /\ op' = "typeNotes"
  /\ UNCHANGED <<appState, content, audioBase64, userAnswers, showScript, score, attempts,
                 playerButOp>>

\* Show Script / Hide Script: line 206
ToggleScript ==
  /\ appState = "LISTENING"
  /\ showScript' = ~showScript
  /\ op' = "toggleScript"
  /\ UNCHANGED <<appState, content, audioBase64, userAnswers, notes, score, attempts,
                 playerButOp>>

\* Go to Questions: line 213
GoToQuestions ==
  /\ appState = "LISTENING"
  /\ appState' = "QUIZ"
  /\ op' = "goToQuestions"
  /\ UNCHANGED <<content, audioBase64, userAnswers, notes, showScript, score, attempts,
                 playerButOp>>

\* Back to Audio: line 296
BackToAudio ==
  /\ appState = "QUIZ"
  /\ appState' = "LISTENING"
  /\ op' = "backToAudio"
  /\ UNCHANGED <<content, audioBase64, userAnswers, notes, showScript, score, attempts,
                 playerButOp>>

\* lines 73-75
handleOptionSelect(o) ==
  /\ appState = "QUIZ"
  /\ userAnswers' = o
  /\ op' = "handleOptionSelect"
  /\ UNCHANGED <<appState, content, audioBase64, notes, showScript, score, attempts,
                 playerButOp>>

\* Submit Answers, enabled once every question has an answer (line 304):
\* lines 77-85
calculateScore ==
  /\ appState = "QUIZ"
  /\ content # 0 /\ userAnswers # "none"
  /\ score' = IF userAnswers = CorrectOption THEN 1 ELSE 0
  /\ appState' = "REVIEW"
  /\ op' = "calculateScore"
  /\ UNCHANGED <<content, audioBase64, userAnswers, notes, showScript, attempts, playerButOp>>

\* Start New Practice: line 376
StartNewPractice ==
  /\ appState = "REVIEW"
  /\ appState' = "SETUP"
  /\ op' = "startNewPractice"
  /\ UNCHANGED <<content, audioBase64, userAnswers, notes, showScript, score, attempts,
                 playerButOp>>

\* Review Transcript: lines 385-388
ReviewTranscript ==
  /\ appState = "REVIEW"
  /\ appState' = "LISTENING"
  /\ showScript' = TRUE
  /\ op' = "reviewTranscript"
  /\ UNCHANGED <<content, audioBase64, userAnswers, notes, score, attempts, playerButOp>>

AppInit == Mounted(NoPayload) /\ AppMounted

AppNext ==
  \/ HandleStart
  \/ \E a \in 1..MaxAttempts : ContentGenerated(a)
  \/ \E a \in 1..MaxAttempts : AudioGenerated(a)
  \/ \E a \in 1..MaxAttempts : GenerationFailed(a)
  \/ ReturnHome
  \/ TypeNotes
  \/ ToggleScript
  \/ GoToQuestions
  \/ BackToAudio
  \/ \E o \in Options : handleOptionSelect(o)
  \/ calculateScore
  \/ StartNewPractice
  \/ ReviewTranscript

AppSpec == AppInit /\ [][AppNext]_vars

\* ------------------------------------------------------------------ properties
programVars == <<props, reactState, ctxVars, refs, pending, mounted>>
IsPoll(o) == o \in {"updateProgress:tick", "updateProgress:ended"}
IsToggle(o) ==
  o \in {"togglePlay:ignored", "togglePlay:await", "togglePlay:play", "togglePlay:pause"}

\* C1: onEnded is invoked only by a poll that finds the transport Playing at
\* the end of the buffer, and then it is the one invocation of that play;
\* never after a pause or a restart.
OnEndedOnlyAtNaturalEnd ==
  [][op' = "updateProgress:ended" => (isPlaying /\ endedCalls' = 1)]_vars

\* C2: in every reachable state 0 <= currentTime <= duration.
CurrentTimeInRange == 0 <= currentTime /\ currentTime <= duration

\* C3: in every reachable state progress is currentTime / duration * 100, and
\* 0 when duration is 0.
ProgressMatchesCurrentTime ==
  IF duration = 0 THEN progress = Zero ELSE progress = Ratio(currentTime * 100, duration)

\* C4: a poll while Playing that is short of the end reports as currentTime the
\* clock time spent Playing since the last rewind.
OffsetAccumulation ==
  [][(isPlaying /\ op' = "updateProgress:tick") => currentTime' = playedTime]_vars

\* C5: while the transport is paused (not playing, and not at its natural end)
\* a poll tick changes none of currentTime, progress and isPlaying and invokes
\* no onEnded.
PollHaltsWhilePaused ==
  [][(~isPlaying /\ ~ended /\ IsPoll(op'))
       => (op' # "updateProgress:ended" /\ UNCHANGED <<currentTime, progress, isPlaying>>)]_vars

\* C6: every source node that is started and not stopped is the node
\* sourceNodeRef holds, so there is at most one.
AtMostOneSourceNode == \A n \in nodes : n.id = sourceNodeRef

\* C7: when two pause requests run in a row, pauseTimeRef, currentTime,
\* progress and isPlaying end as the first request alone leaves them.
PauseIdempotent ==
  [][(op' = "resumed" /\ Len(pendingToggle) = 2
        /\ pendingToggle[1].isPlaying /\ pendingToggle[2].isPlaying)
       => LET once == TogglePlayBody(pendingToggle[1], Transport)
          IN  /\ pauseTimeRef' = once.pauseTimeRef
              /\ currentTime' = once.currentTime
              /\ progress' = once.progress
              /\ isPlaying' = once.isPlaying]_vars

\* C8: isPlaying implies isReady in every reachable state, and a togglePlay
\* invoked before the component is ready changes nothing of the component.
PlayNeedsReady ==
  /\ [](isPlaying => isReady)
  /\ [][(IsToggle(op') /\ ~isReady) => UNCHANGED programVars]_vars

\* C8 witness: togglePlay was invoked while the decode was in flight, and ignored.
PlayIgnoredBeforeReady ==
  op = "togglePlay:ignored" /\ ~isReady /\ audioContextRef # 0 /\ pendingDecode # {}

\* C9: a poll that finds the transport Playing with elapsed >= duration leaves
\* currentTime = duration, progress = 100, pauseTimeRef = 0, isPlaying false,
\* no source node started, and no poll tick pending.
NaturalEndState ==
  [][(isPlaying /\ op' = "updateProgress:ended" /\ Elapsed(Transport) >= duration)
       => /\ currentTime' = duration' /\ progress' = Hundred /\ pauseTimeRef' = 0
          /\ ~isPlaying'
          /\ sourceNodeRef' = 0 /\ nodes' = {}
          /\ rafQueue' = <<>>]_vars

\* C10: a play that follows a natural end, with no restart between, leaves
\* pauseTimeRef = 0, currentTime = 0 and progress = 0, holds a node started at
\* offset 0, and has invoked no onEnded.
ReplayRewinds ==
  [][(ended /\ ~isPlaying /\ isPlaying')
       => /\ pauseTimeRef' = 0 /\ currentTime' = 0 /\ progress' = Zero
          /\ endedCalls' = 0
          /\ \E n \in nodes' : n.id = sourceNodeRef' /\ n.offset = 0]_vars

\* C11: handleRestart leaves no source node started, pauseTimeRef = 0,
\* currentTime = 0, progress = 0 and isPlaying false; it invokes no onEnded and
\* leaves duration and the decoded buffer as they were.
RestartResets ==
  [][op' = "handleRestart"
       => /\ nodes' = {} /\ sourceNodeRef' = 0
          /\ pauseTimeRef' = 0 /\ currentTime' = 0 /\ progress' = Zero
          /\ ~isPlaying'
          /\ endedCalls' = endedCalls
          /\ UNCHANGED <<duration, audioBufferRef>>]_vars

\* C12: while isPlaying stays true, a poll tick never reports a currentTime
\* below the one the poll tick before it reported.
PollsMonotonic ==
  [][(isPlaying /\ isPlaying' /\ polled /\ op' = "updateProgress:tick")
       => currentTime' >= currentTime]_vars

\* what a poll reports e frames of clock time after the first play of a session
\* that was just decoded: the play starts at offset 0
FirstPlayReport(e) == IF e >= duration THEN duration ELSE e

\* C13: every poll of the play that follows a handleRestart reports what a poll
\* of the first play after mount reports after the same clock time.
RestartThenPlayTrajectory ==
  [][(mounted /\ segment \in {"mount", "restart"} /\ isPlaying /\ IsPoll(op'))
       => currentTime' = FirstPlayReport(playedTime)]_vars

\* C14: a payload change or an unmount while Playing leaves no poll tick
\* pending and no source node started, and the context it found is closed.
TeardownWhilePlaying ==
  [][(isPlaying /\ op' \in {"setPayload", "unmount"})
       => /\ rafQueue' = <<>>
          /\ nodes' = {} /\ sourceNodeRef' = 0
          /\ (audioContextRef' = audioContextRef => ctxState' \in {"closed", "none"})]_vars

\* C15: a payload change leaves isReady and isPlaying false, currentTime,
\* progress and pauseTimeRef at 0 and no decoded buffer; and a source node is
\* only ever started on the buffer of the present payload.
PayloadChangeTearsDown ==
  /\ [][op' = "setPayload"
          => /\ ~isReady' /\ ~isPlaying'
             /\ currentTime' = 0 /\ progress' = Zero /\ pauseTimeRef' = 0
             /\ audioBufferRef' = NoPayload]_vars
  /\ [][op' \in {"togglePlay:play", "resumed"} => audioBufferRef = base64Audio]_vars

\* C16: while the payload is null isReady is false; a mount with a null
\* payload and a change of the payload to null create no context and start no
\* decode.
NullPayloadIsIdle ==
  /\ [](base64Audio = NoPayload => ~isReady)
  /\ []((op = "mount" /\ base64Audio = NoPayload)
          => (audioContextRef = 0 /\ pendingDecode = {}))
  /\ [][(op' = "setPayload" /\ base64Audio' = NoPayload)
          => UNCHANGED <<audioContextRef, pendingDecode>>]_vars

\* C17: a failed decode changes no state of the component and starts no other
\* decode; and once the decode of the present payload has failed the component
\* is not ready and togglePlay returns at once.
DecodeFailureIsFatal ==
  /\ [][op' = "decodeFailed"
          => (UNCHANGED <<reactState, audioBufferRef>>
              /\ pendingDecode' \subseteq pendingDecode)]_vars
  /\ []((mounted /\ base64Audio # NoPayload /\ ~DecodeOk(base64Audio)
           /\ pendingDecode = {})
          => (~isReady /\ NotInitialised))

\* C18: a decode that succeeds makes the component ready with, as duration,
\* one frame for every two bytes of the payload it decoded (a frame is 1/24000 s).
DecodedDuration ==
  [][(mounted /\ op' = "decoded")
       => (isReady' /\ 2 * duration' = ByteLength(audioBufferRef'))]_vars

\* C18 witness: the six bytes of payload B were decoded to a duration of three frames.
DecodedSixBytes ==
  op = "decoded" /\ mounted /\ isReady /\ audioBufferRef = "B" /\ duration = 3

\* C19: every pending animation-frame request of the poll is the one
\* animationFrameRef holds, so there is at most one.
OnePendingTick ==
  /\ Len(rafQueue) <= 1
  /\ \A i \in DOMAIN rafQueue : rafQueue[i].id = animationFrameRef

\* C20: once no decode is in flight and the present payload is decodable, the
\* buffer and the duration are those of the present payload and the context
\* in use is not closed.
LatestPayloadWins ==
  (mounted /\ pendingDecode = {} /\ base64Audio # NoPayload /\ DecodeOk(base64Audio))
    => /\ audioBufferRef = base64Audio
       /\ duration = BufferDuration(base64Audio)
       /\ ctxState # "closed"

\* the handlers after which the transport does not play on: a pause, a restart,
\* a payload change, an unmount
Interrupted == op \in {"togglePlay:pause", "handleRestart", "setPayload", "unmount"}

\* a play has just started on a running context, and the clock that is
\* followed leaves room for the rest of the buffer
PlayStarted ==
  /\ op \in {"togglePlay:play", "resumed"}
  /\ isPlaying /\ ctxState = "running"
  /\ duration - Elapsed(Transport) <= MaxClock - ctxTime

\* a poll has found elapsed >= duration, set isPlaying false and called onEnded
PlayEnded == op = "updateProgress:ended" /\ ~isPlaying /\ endedCalls >= 1

\* a poll has found the end of the 3-frame buffer of payload B
NaturalEndReached == PlayEnded /\ ended /\ base64Audio = "B" /\ currentTime = duration

\* C21: a play that has started is followed by its natural end (a poll finds
\* elapsed >= duration, isPlaying becomes false, onEnded is called) unless a
\* pause, a restart, a payload change or an unmount comes first.
PlayReachesEnd == PlayStarted ~> (PlayEnded \/ Interrupted)

\* C22: in every reachable state 0 <= pauseTimeRef <= duration, and while not
\* playing pauseTimeRef = currentTime, except after a natural end, where
\* pauseTimeRef = 0 and currentTime = duration.
OffsetInRange ==
  /\ 0 <= pauseTimeRef /\ pauseTimeRef <= duration
  /\ ~isPlaying => \/ pauseTimeRef = currentTime
                   \/ (ended /\ pauseTimeRef = 0 /\ currentTime = duration)

\* a handleStart call after which another was started
Superseded(a) == a < Started

\* C23: whenever the App is in LISTENING the audio held was generated from the
\* script of the content held, and a handleStart call that settles after
\* another call was started leaves appState as it was.
ListeningHoldsOneAttempt ==
  /\ [](appState = "LISTENING" => (content # 0 /\ audioBase64 = content))
  /\ [][\A a \in 1..MaxAttempts :
          (Superseded(a) /\ attempts[a] # "settled" /\ attempts'[a] = "settled")
            => UNCHANGED appState]_vars

\* C24: a handleStart call whose content or audio generation fails sets the
\* App to SETUP and leaves the audio held, the answers, the notes and the score
\* as they were.
FailedAttemptKeepsSession ==
  [][op' \in {"handleStart:contentFailed", "handleStart:audioFailed"}
       => (appState' = "SETUP" /\ UNCHANGED <<audioBase64, userAnswers, notes, score>>)]_vars

\* C24 witness: the audio generation of a second call failed while the audio,
\* notes, answer and score of the first were held.
AudioFailedWithSessionHeld ==
  /\ op = "handleStart:audioFailed" /\ appState = "SETUP"
  /\ audioBase64 # 0 /\ content # audioBase64
  /\ notes # "" /\ userAnswers # "none" /\ score > 0

====
